---- MODULE Spec2Model ----
(***************************************************************************)
(* Model of keras_cv/datasets/pascal_voc/load.py: the per-record transform *)
(* `apply` built by `curry_map_function`, and the tf.data pipeline that    *)
(* `load` assembles (source -> parallel map -> optional shuffle ->         *)
(* optional ragged batch), iterated for several full passes.               *)
(***************************************************************************)
EXTENDS Integers, Sequences, FiniteSets, TLC

(***************************************************************************)
(* Bounds of the model.                                                    *)
(***************************************************************************)
NumRecords == 3        \* records in the split
MaxParallel == 2       \* largest degree of parallelism AUTOTUNE may choose
NumFiles == 2          \* files (shards) the split is stored in
MaxPasses == 2         \* full iterations over the dataset
MaxShuffleBuffer == 2  \* largest shuffle_buffer argument
MaxBatchSize == 2      \* largest batch_size argument

(***************************************************************************)
(* Optional arguments: None is the empty tuple, a given value v is <<v>>.  *)
(***************************************************************************)
None == <<>>
Some(v) == <<v>>
Val(o) == o[1]

\* An unknown (None) dimension of a static shape.
Unknown == -1

Formats == {"xywh", "rel_xyxy"}
ImgSizes == {None, Some(<<8, 12>>)}
BatchSizes == {None} \cup {Some(b) : b \in 1..MaxBatchSize}
ShuffleBuffers == {None} \cup {Some(b) : b \in 1..MaxShuffleBuffer}

(***************************************************************************)
(* Tensors: kind, dtype, static shape (known when the graph is traced,     *)
(* Unknown for a None dimension), runtime shape and contents.              *)
(***************************************************************************)
Tensor(dtype, static, shape, data) ==
    [kind |-> "Tensor", dtype |-> dtype, static |-> static, shape |-> shape,
     data |-> data]

(***************************************************************************)
(* The dataset source, tfds "voc/2007": record i has an image of its own   *)
(* height and width, ObjCount(i) objects, one rel_yxyx box and one integer *)
(* label (one of 20 classes) per object.  A relative coordinate is stored  *)
(* in quarters of the image side, an absolute one in quarters of a pixel.  *)
(***************************************************************************)
ObjCount(i) == <<0, 1, 5>>[((i - 1) % 3) + 1]
Height(i) == 4 * (1 + (i % 2))
Width(i) == 4 * (1 + ((i + 1) % 3))
SrcLabel(i, j) == (3 * i + 7 * j) % 20
SrcBox(i, j) ==
    LET y1 == j % 3
        x1 == (i + j) % 3
    IN  <<y1, x1, y1 + 1 + (i % 2), x1 + 1 + (j % 2)>>

\* The file that stores record i: the records lie in NumFiles contiguous blocks.
FileOf(i) == (((i - 1) * NumFiles) \div NumRecords) + 1

RawRecord(i) ==
    [image |-> Tensor("uint8", <<Unknown, Unknown, 3>>,
                      <<Height(i), Width(i), 3>>, [src |-> i, resized |-> FALSE]),
     objects |->
        [bbox |-> Tensor("float32", <<Unknown, 4>>, <<ObjCount(i), 4>>,
                         [j \in 1..ObjCount(i) |-> SrcBox(i, j)]),
         label |-> Tensor("int64", <<Unknown>>, <<ObjCount(i)>>,
                          [j \in 1..ObjCount(i) |-> SrcLabel(i, j)])]]

(***************************************************************************)
(* keras.layers.Resizing(height, width, crop_to_aspect_ratio=False): the   *)
(* output has exactly the requested height and width, the channels of the  *)
(* input, and dtype float32.                                               *)
(***************************************************************************)
resizing_swapped(img_size, image) ==
    [image EXCEPT !.dtype = "float32",
                  !.static = <<img_size[2], img_size[1], image.shape[3]>>,
                  !.shape = <<img_size[2], img_size[1], image.shape[3]>>,
                  !.data = [@ EXCEPT !.resized = TRUE]]

resizing(img_size, image) ==
    [image EXCEPT !.dtype = "float32",
                  !.static = <<img_size[1], img_size[2], image.shape[3]>>,
                  !.shape = <<img_size[1], img_size[2], image.shape[3]>>,
                  !.data = [@ EXCEPT !.resized = TRUE]]

(***************************************************************************)
(* keras_cv.bounding_box.convert_format: every row goes from the source    *)
(* format to absolute xyxy (using the height and width of `images` for a   *)
(* relative source) and from there to the target format.  The number of    *)
(* rows and the 4 columns are kept.                                        *)
(***************************************************************************)
ToXYXY(row, h, w, source) ==
    CASE source = "rel_yxyx" -> <<row[2] * w, row[1] * h, row[4] * w, row[3] * h>>
      [] source = "rel_xyxy" -> <<row[1] * w, row[2] * h, row[3] * w, row[4] * h>>
      [] source = "xywh" -> <<row[1], row[2], row[1] + row[3], row[2] + row[4]>>
      [] OTHER -> row

FromXYXY(row, h, w, target) ==
    CASE target = "xywh" -> <<row[1], row[2], row[3] - row[1], row[4] - row[2]>>
      [] target = "rel_xyxy" -> <<row[1] \div w, row[2] \div h, row[3] \div w, row[4] \div h>>
      [] target = "rel_yxyx" -> <<row[2] \div h, row[1] \div w, row[4] \div h, row[3] \div w>>
      [] OTHER -> row

convert_format(boxes, images, source, target) ==
    LET h == images.shape[1]
        w == images.shape[2]
    IN  [boxes EXCEPT !.data =
            [j \in 1..Len(boxes.data) |->
                FromXYXY(ToXYXY(boxes.data[j], h, w, source), h, w, target)]]

(***************************************************************************)
(* tf.cast(.., tf.float32) of an integer: exact up to 2^24, rounded to the *)
(* 24-bit significand beyond it (ties to even).                            *)
(***************************************************************************)
RECURSIVE Ulp(_, _)
Ulp(n, u) == IF n < 16777216 * u * 2 THEN u ELSE Ulp(n, u * 2)

Float32OfNat(n) ==
    IF n <= 16777216 THEN n
    ELSE LET u == Ulp(n, 1)
             lo == (n \div u) * u
             r == n - lo
         IN  IF 2 * r < u THEN lo
             ELSE IF 2 * r > u THEN lo + u
             ELSE IF (lo \div u) % 2 = 0 THEN lo ELSE lo + u

Float32OfInt(n) == IF n >= 0 THEN Float32OfNat(n) ELSE 0 - Float32OfNat(0 - n)

tf_cast_float32(t) ==
    [t EXCEPT !.dtype = "float32",
              !.data = [j \in 1..Len(t.data) |-> Float32OfInt(t.data[j])]]

\* tf.expand_dims(t, axis=-1) of a rank-1 tensor: every element becomes a row.
tf_expand_dims(t) ==
    [t EXCEPT !.static = Append(t.static, 1),
              !.shape = Append(t.shape, 1),
              !.data = [j \in 1..Len(t.data) |-> <<t.data[j]>>]]

\* tf.concat([a, b], axis=-1) of two rank-2 tensors with the same rows.
tf_concat(a, b) ==
    [a EXCEPT !.static = <<a.static[1], a.static[2] + b.static[2]>>,
              !.shape = <<a.shape[1], a.shape[2] + b.shape[2]>>,
              !.data = [j \in 1..Len(a.data) |-> a.data[j] \o b.data[j]]]

(***************************************************************************)
(* `apply`, statement by statement.  A run of apply is the `inputs`        *)
(* dictionary it mutates and the calls it has made to its collaborators.   *)
(***************************************************************************)
\* Lines 33-34.
apply_resize(img_size, s) ==
    IF img_size # None
    THEN [inputs |-> [s.inputs EXCEPT !.image = resizing(Val(img_size), s.inputs.image)],
          calls |-> Append(s.calls, [fn |-> "resizing",
                                     args |-> [image |-> s.inputs.image]])]
    ELSE s

\* The arguments apply passes to bounding_box.convert_format, lines 36-41.
convert_args(bounding_box_format, inputs) ==
    [boxes |-> inputs.objects.bbox, images |-> inputs.image,
     source |-> "rel_yxyx", target |-> bounding_box_format]

apply_convert(bounding_box_format, s) ==
    LET a == convert_args(bounding_box_format, s.inputs)
    IN  [inputs |-> [s.inputs EXCEPT !.objects.bbox =
                        convert_format(a.boxes, a.images, a.source, a.target)],
         calls |-> Append(s.calls, [fn |-> "convert_format", args |-> a])]

\* Lines 43-47.
apply_concat_no_labels(inputs) ==
    [images |-> inputs.image, bounding_boxes |-> inputs.objects.bbox]

apply_concat_reversed(inputs) ==
    LET labels == tf_cast_float32(inputs.objects.label)
        n == Len(labels.data)
        rev == [labels EXCEPT !.data = [j \in 1..n |-> labels.data[n + 1 - j]]]
    IN  [images |-> inputs.image,
         bounding_boxes |-> tf_concat(inputs.objects.bbox, tf_expand_dims(rev))]

apply_concat(inputs) ==
    LET bounding_boxes == inputs.objects.bbox
        labels == tf_expand_dims(tf_cast_float32(inputs.objects.label))
    IN  [images |-> inputs.image,
         bounding_boxes |-> tf_concat(bounding_boxes, labels)]

\* Lines 33-41 in program order: the resize, then the conversion.
apply_body_convert_first(bounding_box_format, img_size, s) ==
    apply_resize(img_size, apply_convert(bounding_box_format, s))

apply_body(bounding_box_format, img_size, s) ==
    apply_convert(bounding_box_format, apply_resize(img_size, s))

\* One call of apply: what it returns and the calls it made.
apply_run(bounding_box_format, img_size, inputs) ==
    LET s == apply_body(bounding_box_format, img_size,
                        [inputs |-> inputs, calls |-> <<>>])
    IN  [result |-> apply_concat(s.inputs), calls |-> s.calls]

apply(bounding_box_format, img_size, inputs) ==
    apply_run(bounding_box_format, img_size, inputs).result

(***************************************************************************)
(* `load`: the chain of dataset stages it builds, in order of application. *)
(* tf.data defaults that the call sites rely on are spelled out:           *)
(* map(.., num_parallel_calls=AUTOTUNE) is deterministic, and              *)
(* dense_to_ragged_batch keeps the remainder.                              *)
(***************************************************************************)
MapStage_nondeterministic(bounding_box_format, img_size) ==
    [op |-> "map",
     arg |-> [bounding_box_format |-> bounding_box_format, img_size |-> img_size,
              deterministic |-> FALSE]]

MapStage(bounding_box_format, img_size) ==
    [op |-> "map",
     arg |-> [bounding_box_format |-> bounding_box_format, img_size |-> img_size,
              deterministic |-> TRUE]]

ShuffleStage_no_reshuffle(shuffle_buffer) ==
    [op |-> "shuffle",
     arg |-> [buffer_size |-> Val(shuffle_buffer), reshuffle_each_iteration |-> FALSE]]

ShuffleStage(shuffle_buffer) ==
    [op |-> "shuffle",
     arg |-> [buffer_size |-> Val(shuffle_buffer), reshuffle_each_iteration |-> TRUE]]

BatchStage_dense(batch_size) ==
    [op |-> "batch",
     arg |-> [batch_size |-> Val(batch_size), ragged |-> FALSE, drop_remainder |-> FALSE]]

BatchStage_drop_remainder(batch_size) ==
    [op |-> "batch",
     arg |-> [batch_size |-> Val(batch_size), ragged |-> TRUE, drop_remainder |-> TRUE]]

BatchStage(batch_size) ==
    [op |-> "batch",
     arg |-> [batch_size |-> Val(batch_size), ragged |-> TRUE, drop_remainder |-> FALSE]]

load(bounding_box_format, batch_size, shuffle_buffer, img_size) ==
    <<MapStage(bounding_box_format, img_size)>>
    \o (IF shuffle_buffer # None THEN <<ShuffleStage(shuffle_buffer)>> ELSE <<>>)
    \o (IF batch_size # None THEN <<BatchStage(batch_size)>> ELSE <<>>)

(***************************************************************************)
(* Batching one component of the records of a batch.  On the ragged path a *)
(* component whose static shape is not fully defined becomes a             *)
(* RaggedTensor that keeps every record's own rows; a fully defined one is *)
(* stacked.  Without the ragged path, stacking needs equal runtime shapes. *)
(***************************************************************************)
FullyDefined(static) == \A d \in 1..Len(static) : static[d] # Unknown

SameShapes(ts) == \A k \in 1..Len(ts) : ts[k].shape = ts[1].shape

Stackable(ts, ragged) ==
    IF ragged THEN TRUE ELSE SameShapes(ts)

BatchComponent(ts, ragged) ==
    IF ragged /\ ~FullyDefined(ts[1].static)
    THEN [kind |-> "RaggedTensor", dtype |-> ts[1].dtype,
          static |-> <<Unknown>> \o ts[1].static,
          shape |-> <<Len(ts)>> \o ts[1].static,
          data |-> [k \in 1..Len(ts) |-> [shape |-> ts[k].shape, data |-> ts[k].data]]]
    ELSE [kind |-> "Tensor", dtype |-> ts[1].dtype,
          static |-> <<Unknown>> \o ts[1].static,
          shape |-> <<Len(ts)>> \o ts[1].shape,
          data |-> [k \in 1..Len(ts) |-> [shape |-> ts[k].shape, data |-> ts[k].data]]]

MakeBatch(elems, ragged) ==
    [images |-> BatchComponent([k \in 1..Len(elems) |-> elems[k].images], ragged),
     bounding_boxes |->
        BatchComponent([k \in 1..Len(elems) |-> elems[k].bounding_boxes], ragged)]

BatchFails(elems, ragged) ==
    \/ ~Stackable([k \in 1..Len(elems) |-> elems[k].images], ragged)
    \/ ~Stackable([k \in 1..Len(elems) |-> elems[k].bounding_boxes], ragged)

(***************************************************************************)
(* State of one call of `load` and of the iteration of its dataset.        *)
(***************************************************************************)
VARIABLES
    cfg,         \* the arguments of load
    pass,        \* number of the current full iteration
    phase,       \* "iterating", or "end" once the consumer has seen the end
    unread,      \* source records not yet read in this pass
    srcorder,    \* source records in the order the source emitted them
    workers,     \* map calls in flight: position -> inputs
    done,        \* finished map calls not yet emitted: position -> apply_run
    map_next,    \* position of the next element the map stage emits
    buf,         \* the shuffle buffer
    acc,         \* records of the batch being formed
    out,         \* entries delivered to the consumer in this pass
    error        \* an exception was raised while iterating

vars == <<cfg, pass, phase, unread, srcorder, workers, done, map_next, buf, acc,
          out, error>>

Pipeline == load(cfg.bounding_box_format, cfg.batch_size, cfg.shuffle_buffer,
                 cfg.img_size)

NStages == Len(Pipeline)

MaxStages == 3

Min(S) == CHOOSE x \in S : \A y \in S : x <= y

Remove(f, p) == [q \in (DOMAIN f) \ {p} |-> f[q]]

RemoveAt(s, k) == [j \in 1..(Len(s) - 1) |-> IF j < k THEN s[j] ELSE s[j + 1]]

Init ==
    /\ cfg \in [bounding_box_format : Formats, batch_size : BatchSizes,
                shuffle_buffer : ShuffleBuffers, shuffle_files : BOOLEAN,
                img_size : ImgSizes]
    /\ pass = 1
    /\ phase = "iterating"
    /\ unread = 1..NumRecords
    /\ srcorder = <<>>
    /\ workers = <<>>
    /\ done = <<>>
    /\ map_next = 1
    /\ buf = <<>>
    /\ acc = <<>>
    /\ out = <<>>
    /\ error = FALSE

Running == phase = "iterating" /\ ~error

OpOf(i) == IF i <= NStages THEN Pipeline[i].op ELSE "consumer"

\* Stage i (the consumer after the last stage) can take one more element.
CanAccept(i) ==
    CASE OpOf(i) = "shuffle" -> Len(buf) < Pipeline[i].arg.buffer_size
      [] OpOf(i) = "batch" -> Len(acc) < Pipeline[i].arg.batch_size
      [] OTHER -> TRUE

\* Element x is handed to stage i; b, a and o are the buffer, the batch being
\* formed and the delivered entries as the handing stage leaves them.
Deliver(i, x, b, a, o) ==
    /\ buf' = IF OpOf(i) = "shuffle" THEN Append(b, x) ELSE b
    /\ acc' = IF OpOf(i) = "batch" THEN Append(a, x) ELSE a
    /\ out' = IF OpOf(i) = "consumer" THEN Append(o, x) ELSE o

StageEmpty(j) ==
    CASE Pipeline[j].op = "map" -> unread = {} /\ DOMAIN workers = {} /\ DOMAIN done = {}
      [] Pipeline[j].op = "shuffle" -> buf = <<>>
      [] Pipeline[j].op = "batch" -> acc = <<>>

\* Everything before stage i has been read, processed and handed on.
UpstreamDone(i) == \A j \in 1..(i - 1) : StageEmpty(j)

(***************************************************************************)
(* tfds.load(.., shuffle_files=..) feeding dataset.map(apply,              *)
(* num_parallel_calls=AUTOTUNE): the next source record is read and a map  *)
(* call is started on it.  The source reads one file after the other, the  *)
(* records of a file in their stored order; file shuffling makes the order *)
(* of the files random, and without it the files are read in order.        *)
(***************************************************************************)
NextInSource_always_shuffled(i) ==
    LET cur == {j \in unread : srcorder # <<>> /\ FileOf(j) = FileOf(srcorder[Len(srcorder)])}
    IN  IF cur # {} THEN i = Min(cur)
        ELSE i = Min({j \in unread : FileOf(j) = FileOf(i)})

NextInSource(i) ==
    LET cur == {j \in unread : srcorder # <<>> /\ FileOf(j) = FileOf(srcorder[Len(srcorder)])}
    IN  IF cur # {} THEN i = Min(cur)
        ELSE /\ i = Min({j \in unread : FileOf(j) = FileOf(i)})
             /\ cfg.shuffle_files \/ i = Min(unread)

MapStart ==
    /\ Running
    /\ Cardinality(DOMAIN workers) < MaxParallel
    /\ \E i \in unread :
        /\ NextInSource(i)
        /\ unread' = unread \ {i}
        /\ srcorder' = Append(srcorder, i)
        /\ workers' = ((Len(srcorder) + 1) :> RawRecord(i)) @@ workers
    /\ UNCHANGED <<cfg, pass, phase, done, map_next, buf, acc, out, error>>

\* One of the calls in flight runs apply and returns.
MapCall(p) ==
    /\ Running
    /\ p \in DOMAIN workers
    /\ done' = (p :> apply_run(cfg.bounding_box_format, cfg.img_size, workers[p]))
               @@ done
    /\ workers' = Remove(workers, p)
    /\ UNCHANGED <<cfg, pass, phase, unread, srcorder, map_next, buf, acc, out,
                   error>>

\* The map stage hands a result on: in input order when deterministic.
MapEmit ==
    /\ Running
    /\ CanAccept(2)
    /\ \E p \in DOMAIN done :
        /\ Pipeline[1].arg.deterministic => p = map_next
        /\ Deliver(2, done[p].result, buf, acc, out)
        /\ done' = Remove(done, p)
    /\ map_next' = map_next + 1
    /\ UNCHANGED <<cfg, pass, phase, unread, srcorder, workers, error>>

(***************************************************************************)
(* dataset.shuffle(buffer_size, reshuffle_each_iteration): the buffer is   *)
(* filled from upstream; once it is full, or upstream is exhausted, a      *)
(* random slot is emitted.  Every pass draws anew, as                      *)
(* reshuffle_each_iteration prescribes.                                    *)
(***************************************************************************)
ShuffleEmit(i) ==
    /\ Running
    /\ OpOf(i) = "shuffle"
    /\ buf # <<>>
    /\ Len(buf) = Pipeline[i].arg.buffer_size \/ UpstreamDone(i)
    /\ CanAccept(i + 1)
    /\ \E k \in 1..Len(buf) : Deliver(i + 1, buf[k], RemoveAt(buf, k), acc, out)
    /\ UNCHANGED <<cfg, pass, phase, unread, srcorder, workers, done, map_next,
                   error>>

(***************************************************************************)
(* dataset.apply(dense_to_ragged_batch(batch_size)): records are gathered  *)
(* until batch_size of them are there or upstream is exhausted, and the    *)
(* batch is emitted.                                                       *)
(***************************************************************************)
BatchEmit(i) ==
    /\ Running
    /\ OpOf(i) = "batch"
    /\ acc # <<>>
    /\ Len(acc) = Pipeline[i].arg.batch_size \/ UpstreamDone(i)
    /\ CanAccept(i + 1)
    /\ IF Len(acc) < Pipeline[i].arg.batch_size /\ Pipeline[i].arg.drop_remainder
       THEN acc' = <<>> /\ UNCHANGED <<buf, out, error>>
       ELSE IF BatchFails(acc, Pipeline[i].arg.ragged)
       THEN acc' = <<>> /\ error' = TRUE /\ UNCHANGED <<buf, out>>
       ELSE /\ Deliver(i + 1, MakeBatch(acc, Pipeline[i].arg.ragged), buf, <<>>, out)
            /\ UNCHANGED error
    /\ UNCHANGED <<cfg, pass, phase, unread, srcorder, workers, done, map_next>>

\* The consumer reaches the end of the dataset.
EndPass ==
    /\ Running
    /\ UpstreamDone(NStages + 1)
    /\ phase' = "end"
    /\ UNCHANGED <<cfg, pass, unread, srcorder, workers, done, map_next, buf, acc,
                   out, error>>

\* The consumer iterates the dataset again: every stage starts anew.
StartPass ==
    /\ phase = "end"
    /\ pass < MaxPasses
    /\ pass' = pass + 1
    /\ phase' = "iterating"
    /\ unread' = 1..NumRecords
    /\ srcorder' = <<>>
    /\ map_next' = 1
    /\ out' = <<>>
    /\ UNCHANGED <<cfg, workers, done, buf, acc, error>>

Next ==
    \/ MapStart
    \/ \E p \in 1..NumRecords : MapCall(p)
    \/ MapEmit
    \/ \E i \in 2..MaxStages : ShuffleEmit(i)
    \/ \E i \in 2..MaxStages : BatchEmit(i)
    \/ EndPass
    \/ StartPass

Spec == Init /\ [][Next]_vars

(***************************************************************************)
(* Vocabulary of the properties.                                           *)
(***************************************************************************)
\* The record a finished or running map call at position p was started on.
RawAt(p) == RawRecord(srcorder[p])

\* The entries delivered to the consumer so far, in any pass.
Entries == {out[k] : k \in 1..Len(out)}

\* A full pass is over.
PassDone == phase = "end"

Batched == cfg.batch_size # None

\* The source records an entry holds, in the order it holds them.
Ids(e) ==
    IF e.images.kind = "Tensor" /\ Len(e.images.shape) = 3
    THEN <<e.images.data.src>>
    ELSE [k \in 1..Len(e.images.data) |-> e.images.data[k].data.src]

RECURSIVE Flatten(_)
Flatten(es) == IF es = <<>> THEN <<>> ELSE Ids(Head(es)) \o Flatten(Tail(es))

IsPrefix(a, b) == Len(a) <= Len(b) /\ \A k \in 1..Len(a) : a[k] = b[k]

Count(s, x) == Cardinality({k \in 1..Len(s) : s[k] = x})

NoShuffling == cfg.shuffle_buffer = None /\ ~cfg.shuffle_files

\* C1: the bounding_boxes that apply returns for a record with N objects
\* (N = 0 included) has exactly N rows and 5 columns, for every format and
\* image size.
RowCountPreserved ==
    \A p \in DOMAIN done :
        LET n == Len(RawAt(p).objects.label.data)
            bb == done[p].result.bounding_boxes
        IN  /\ n = RawAt(p).objects.bbox.shape[1]
            /\ bb.shape = <<n, 5>>
            /\ Len(bb.data) = n
            /\ \A j \in 1..n : Len(bb.data[j]) = 5

RowCountWitness ==
    /\ \E p \in DOMAIN done : Len(RawAt(p).objects.label.data) = 0
    /\ \E p \in DOMAIN done : Len(RawAt(p).objects.label.data) > 1

\* C2: the 5th column of row j of the output is the label of object j of the
\* record, cast to float32, and the first 4 columns are the box of the same
\* object j, converted.
LabelColumn ==
    \A p \in DOMAIN done :
        LET raw == RawAt(p)
            bb == done[p].result.bounding_boxes
            boxes == convert_format(raw.objects.bbox, done[p].result.images,
                                    "rel_yxyx", cfg.bounding_box_format)
        IN  /\ bb.dtype = "float32"
            /\ Len(bb.data) = Len(raw.objects.label.data)
            /\ \A j \in 1..Len(bb.data) :
                /\ bb.data[j][5] = Float32OfInt(raw.objects.label.data[j])
                /\ SubSeq(bb.data[j], 1, 4) = boxes.data[j]

LabelColumnWitness ==
    \E p \in DOMAIN done :
        LET l == RawAt(p).objects.label.data
        IN  Len(l) > 1 /\ \A j, k \in 1..Len(l) : j # k => l[j] # l[k]

\* C3: with img_size configured every output image has exactly that height
\* and width; with img_size None every output image is the input image,
\* unchanged.
ImageSize ==
    \A p \in DOMAIN done :
        IF cfg.img_size # None
        THEN /\ done[p].result.images.shape[1] = Val(cfg.img_size)[1]
             /\ done[p].result.images.shape[2] = Val(cfg.img_size)[2]
             /\ done[p].result.images.shape[3] = 3
        ELSE done[p].result.images = RawAt(p).image

ImageSizeWitness ==
    /\ cfg.img_size # None
    /\ \E p \in DOMAIN done :
        /\ RawAt(p).image.shape[1] # Val(cfg.img_size)[1]
        /\ RawAt(p).image.shape[2] # Val(cfg.img_size)[2]

\* C4: batching never raises, whatever the object counts of the records of a
\* batch; bounding_boxes of a batch is ragged and element k of it has the
\* rows of its own record.
RaggedBatching ==
    /\ ~error
    /\ Batched =>
        \A e \in Entries :
            /\ e.bounding_boxes.kind = "RaggedTensor"
            /\ Len(e.bounding_boxes.data) = Len(e.images.data)
            /\ \A k \in 1..Len(e.images.data) :
                LET r == apply(cfg.bounding_box_format, cfg.img_size,
                               RawRecord(e.images.data[k].data.src))
                IN  /\ e.bounding_boxes.data[k].shape = r.bounding_boxes.shape
                    /\ e.bounding_boxes.data[k].data = r.bounding_boxes.data

RaggedBatchingWitness ==
    /\ Batched
    /\ \E k \in 1..Len(out) :
        \E a, b \in 1..Len(out[k].bounding_boxes.data) :
            /\ out[k].bounding_boxes.data[a].shape[1] = 0
            /\ out[k].bounding_boxes.data[b].shape[1] > 0

\* C5: without batching and shuffling, the pipeline yields the transformed
\* source records one by one in the order the source emitted them, one
\* entry per source record in a full pass, although map calls run in
\* parallel.
UnbatchedOrder ==
    (~Batched /\ NoShuffling) =>
        /\ Len(out) <= Len(srcorder)
        /\ \A k \in 1..Len(out) :
            out[k] = apply(cfg.bounding_box_format, cfg.img_size, RawRecord(srcorder[k]))
        /\ PassDone =>
            /\ Len(out) = NumRecords
            /\ \A k \in 1..NumRecords : Ids(out[k]) = <<k>>

UnbatchedOrderWitness ==
    /\ ~Batched /\ NoShuffling
    /\ Len(out) >= 1
    /\ map_next \in DOMAIN workers
    /\ \E p \in DOMAIN done : p > map_next

\* The k-th entry of a pass over the records in their stored order.
StoredOrderEntry(k) ==
    LET b == IF Batched THEN Val(cfg.batch_size) ELSE 1
        first == (k - 1) * b + 1
        last == IF k * b < NumRecords THEN k * b ELSE NumRecords
        recs == [j \in 1..(last - first + 1) |->
                    apply(cfg.bounding_box_format, cfg.img_size,
                          RawRecord(first + j - 1))]
    IN  IF Batched THEN MakeBatch(recs, TRUE) ELSE recs[1]

\* C6: with shuffle_buffer None and shuffle_files False, what a pass yields
\* is fixed by the arguments of load alone, entry by entry, so any two full
\* passes yield the same entries in the same order.
PassesIdentical ==
    NoShuffling =>
        /\ \A k \in 1..Len(out) : out[k] = StoredOrderEntry(k)
        /\ PassDone =>
              LET b == IF Batched THEN Val(cfg.batch_size) ELSE 1
              IN  Len(out) = (NumRecords + b - 1) \div b

PassesIdenticalWitness ==
    /\ NoShuffling
    /\ pass > 1
    /\ PassDone
    /\ Len(out) >= 2

\* C7: every entry has images a Tensor of shape [batch, H, W, 3] and
\* bounding_boxes a ragged tensor of shape [batch, None, 5], whatever
\* batch_size and img_size are.
DocstringShapes ==
    \A e \in Entries :
        /\ e.images.kind = "Tensor"
        /\ Len(e.images.shape) = 4
        /\ e.images.shape[4] = 3
        /\ e.bounding_boxes.kind = "RaggedTensor"
        /\ Len(e.bounding_boxes.shape) = 3
        /\ e.bounding_boxes.shape[2] = Unknown
        /\ e.bounding_boxes.shape[3] = 5

ResizeBeforeConvert ==
    \A p \in DOMAIN done :
        LET calls == done[p].calls
            resized == cfg.img_size # None
            nres == IF resized THEN 1 ELSE 0
        IN  /\ Len(calls) = nres + 1
            /\ resized =>
                  calls[1] = [fn |-> "resizing", args |-> [image |-> RawAt(p).image]]
            /\ LET c == calls[nres + 1]
               IN  /\ c.fn = "convert_format"
                   /\ c.args.source = "rel_yxyx"
                   /\ c.args.target = cfg.bounding_box_format
                   /\ c.args.boxes = RawAt(p).objects.bbox
                   /\ c.args.images = done[p].result.images
                   /\ c.args.images.shape =
                        IF resized
                        THEN <<Val(cfg.img_size)[1], Val(cfg.img_size)[2], 3>>
                        ELSE RawAt(p).image.shape

ResizeBeforeConvertWitness ==
    /\ cfg.img_size # None
    /\ \E p \in DOMAIN done :
        /\ RawAt(p).image.shape # done[p].result.images.shape
        /\ RawAt(p).objects.bbox.data # <<>>

\* C10: a full pass delivers every source record exactly once; with
\* batching, every batch but the last has exactly batch_size records, and
\* the last one is non-empty and holds the remaining records.
ExactlyOnce ==
    /\ \A i \in 1..NumRecords : Count(Flatten(out), i) <= 1
    /\ PassDone =>
        /\ \A i \in 1..NumRecords : Count(Flatten(out), i) = 1
        /\ Len(Flatten(out)) = NumRecords
        /\ Batched =>
            LET b == Val(cfg.batch_size)
                n == Len(out)
            IN  /\ n = (NumRecords + b - 1) \div b
                /\ \A k \in 1..n :
                    /\ Len(Ids(out[k])) >= 1
                    /\ out[k].images.shape[1] = Len(Ids(out[k]))
                    /\ k < n => Len(Ids(out[k])) = b

ExactlyOnceWitness ==
    /\ Batched
    /\ cfg.shuffle_buffer # None
    /\ PassDone
    /\ Len(Ids(out[Len(out)])) < Val(cfg.batch_size)

====
